---- MODULE Spec2Model ----
(***************************************************************************)
(* GameController of src/main.py: the tic-tac-toe engine (board, win/tie   *)
(* detection, turn order) and its three move strategies (random, greedy,   *)
(* minimax with alpha-beta pruning).                                       *)
(*                                                                         *)
(* The engine is one object used from a single thread.  Its fields are the *)
(* variables below.  A strategy call (best_move) simulates moves by        *)
(* writing cells of board_state and reverting them; the call stack of the  *)
(* running strategy is the variable `stack`, so that the boards the        *)
(* strategies write while they search are states of the model.             *)
(***************************************************************************)
EXTENDS Integers, Sequences, FiniteSets, TLC

VARIABLES
  board_state,           \* board_state[r][c]: symbol of the cell, "" = empty
  game_won,              \* cached flag set by apply_move
  winner_combination,    \* << >> or the recorded combination
  current_player_index,  \* index into players
  players,               \* players[i] = [symbol, is_ai]
  current_player,        \* cached copy of players[current_player_index]
  player_ai_type,        \* symbol -> strategy name
  stack,                 \* frames of the running strategy call, top last
  result,                \* << >>, or <<v>>: v returned by the last best_move
  entry                  \* << >>, or <<s>>: engine state at entry of that call
                         \* (or at entry of the last reset_game)

vars == << board_state, game_won, winner_combination, current_player_index,
           players, current_player, player_ai_type, stack, result, entry >>

engine == << board_state, game_won, winner_combination, current_player_index,
             players, current_player, player_ai_type >>

-----------------------------------------------------------------------------
(* Constants of the program *)

BOARD_SIZE == << 3, 3 >>

DEFAULT_PLAYERS ==
  [i \in 0..1 |-> IF i = 0 THEN [symbol |-> "X", is_ai |-> FALSE]
                           ELSE [symbol |-> "O", is_ai |-> FALSE]]

ai_types == << "minimax", "random", "greedy" >>

\* float('-inf') and float('inf'): evaluations are -1, 0 or 1
NegInf == -2
PosInf == 2

\* Python's None (no move) and False (no winner)
None == << >>
False == "False"

NumPlayers == 2
PlayerIndexes == 0..(NumPlayers - 1)

RowRange == 0..(BOARD_SIZE[1] - 1)
ColRange == 0..(BOARD_SIZE[2] - 1)
Cells == RowRange \X ColRange

-----------------------------------------------------------------------------
(* Board helpers *)

\* _initialize_board: every cell is Move(row, col) with symbol ""
EmptyBoard == [r \in RowRange |-> [c \in ColRange |-> ""]]

\* rows + cols + [diag1, diag2], in this order
winning_combinations ==
  [i \in 1..BOARD_SIZE[1] |-> [j \in 1..BOARD_SIZE[2] |-> << i - 1, j - 1 >>]] \o
  [j \in 1..BOARD_SIZE[2] |-> [i \in 1..BOARD_SIZE[1] |-> << i - 1, j - 1 >>]] \o
  << [i \in 1..BOARD_SIZE[1] |-> << i - 1, i - 1 >>],
     [i \in 1..BOARD_SIZE[1] |-> << i - 1, BOARD_SIZE[1] - i >>] >>

\* the set `symbols` built from one combination
CombinationSymbols(b, combination) ==
  { b[combination[k][1]][combination[k][2]] : k \in 1..Len(combination) }

\* len(symbols) == 1 and "" not in symbols
IsWinning(b, combination) ==
  LET symbols == CombinationSymbols(b, combination)
  IN  Cardinality(symbols) = 1 /\ "" \notin symbols

\* index of the first winning combination in scan order, 0 when none
RECURSIVE FirstWinningFrom(_, _)
FirstWinningFrom(b, k) ==
  IF k > Len(winning_combinations) THEN 0
  ELSE IF IsWinning(b, winning_combinations[k]) THEN k
  ELSE FirstWinningFrom(b, k + 1)

FirstWinning(b) == FirstWinningFrom(b, 1)

\* has_winner() that answers from the cached flag when no win is recorded
has_winner_Cached(b) ==
  LET k == FirstWinning(b)
  IN  IF ~game_won \/ k = 0 THEN False
      ELSE b[winning_combinations[k][1][1]][winning_combinations[k][1][2]]

\* has_winner(): symbol of the first winning combination, or False
has_winner(b) ==
  LET k == FirstWinning(b)
  IN  IF k = 0 THEN False
      ELSE b[winning_combinations[k][1][1]][winning_combinations[k][1][2]]

\* all(move.symbol for row in board_state for move in row)
AllOccupied(b) == \A r \in RowRange : \A c \in ColRange : b[r][c] # ""

\* is_tie() that looks at the cells only
is_tie_BoardOnly(b, won) == AllOccupied(b)

\* is_tie()
is_tie(b, won) == ~won /\ AllOccupied(b)

\* is_valid_move that looks at the flag only
is_valid_move_FlagOnly(r, c) == ~game_won

\* is_valid_move that looks at the cell only
is_valid_move_CellOnly(r, c) == board_state[r][c] = ""

\* is_valid_move(move)
is_valid_move(r, c) == ~game_won /\ board_state[r][c] = ""

\* get_opponent(current_player): compares whole Player tuples
get_opponent(player) == IF player = players[0] THEN players[1] ELSE players[0]

Idle == stack = << >>

\* the engine state a call starts from
Snapshot ==
  [board_state |-> board_state, game_won |-> game_won,
   winner_combination |-> winner_combination,
   current_player_index |-> current_player_index]

-----------------------------------------------------------------------------
(* Engine operations *)

\* __init__ (and _initialize_board), followed by set_ai_type(i, ai_type) for
\* every player i when ai_type is not the constructor's "minimax"
InitWith(ai_type) ==
  /\ board_state = EmptyBoard
  /\ game_won = FALSE
  /\ winner_combination = << >>
  /\ current_player_index = 0
  /\ players = DEFAULT_PLAYERS
  /\ current_player = DEFAULT_PLAYERS[0]
  /\ player_ai_type = [s \in {DEFAULT_PLAYERS[i].symbol : i \in PlayerIndexes} |-> ai_type]
  /\ stack = << >>
  /\ result = << >>
  /\ entry = << >>

Init == InitWith("minimax")

\* index of the last winning combination in scan order, 0 when none
RECURSIVE LastWinningFrom(_, _)
LastWinningFrom(b, k) ==
  IF k < 1 THEN 0
  ELSE IF IsWinning(b, winning_combinations[k]) THEN k
  ELSE LastWinningFrom(b, k - 1)

\* apply_move whose scan does not stop at the first winning combination
apply_move_NoBreak(r, c, symbol) ==
  LET b == [board_state EXCEPT ![r][c] = symbol]
      k == LastWinningFrom(b, Len(winning_combinations))
  IN  /\ board_state' = b
      /\ IF k # 0
         THEN /\ game_won' = TRUE
              /\ winner_combination' = winning_combinations[k]
         ELSE UNCHANGED << game_won, winner_combination >>

\* apply_move that writes the cell with row and column exchanged
apply_move_Transposed(r, c, symbol) ==
  LET b == [board_state EXCEPT ![c][r] = symbol]
      k == FirstWinning(b)
  IN  /\ board_state' = b
      /\ IF k # 0
         THEN /\ game_won' = TRUE
              /\ winner_combination' = winning_combinations[k]
         ELSE UNCHANGED << game_won, winner_combination >>

\* apply_move(Move(r, c, symbol)): write the cell, then scan for a win
apply_move(r, c, symbol) ==
  LET b == [board_state EXCEPT ![r][c] = symbol]
      k == FirstWinning(b)
  IN  /\ board_state' = b
      /\ IF k # 0
         THEN /\ game_won' = TRUE
              /\ winner_combination' = winning_combinations[k]
         ELSE UNCHANGED << game_won, winner_combination >>

\* switch_player()
switch_player ==
  LET i == (current_player_index + 1) % NumPlayers
  IN  /\ current_player_index' = i
      /\ current_player' = players[i]

\* the caller's move: is_valid_move, then apply_move with the mover's symbol
Play(r, c) ==
  /\ Idle
  /\ is_valid_move(r, c)
  /\ apply_move(r, c, current_player.symbol)
  /\ result' = << >> /\ entry' = << >>
  /\ UNCHANGED << current_player_index, players, current_player, player_ai_type, stack >>

SwitchPlayer ==
  /\ Idle
  /\ switch_player
  /\ result' = << >> /\ entry' = << >>
  /\ UNCHANGED << board_state, game_won, winner_combination, players, player_ai_type, stack >>

\* reset_game() that leaves the turn where it was
ResetGame_KeepTurn ==
  /\ Idle
  /\ board_state' = EmptyBoard
  /\ game_won' = FALSE
  /\ winner_combination' = << >>
  /\ result' = << >> /\ entry' = << Snapshot >>
  /\ UNCHANGED << current_player_index, current_player, players, player_ai_type, stack >>

\* reset_game()
ResetGame ==
  /\ Idle
  /\ board_state' = EmptyBoard
  /\ game_won' = FALSE
  /\ winner_combination' = << >>
  /\ current_player_index' = 0
  /\ current_player' = players[0]
  /\ result' = << >> /\ entry' = << Snapshot >>
  /\ UNCHANGED << players, player_ai_type, stack >>

\* toggle_ai that does not refresh the cached current player
ToggleAi_NoRefresh(player_index) ==
  /\ Idle
  /\ players' = [players EXCEPT ![player_index].is_ai = ~players[player_index].is_ai]
  /\ result' = << >> /\ entry' = << >>
  /\ UNCHANGED << board_state, game_won, winner_combination, current_player_index,
                  current_player, player_ai_type, stack >>

\* toggle_ai(player_index)
ToggleAi(player_index) ==
  /\ Idle
  /\ players' = [players EXCEPT ![player_index].is_ai = ~players[player_index].is_ai]
  /\ IF current_player_index = player_index
     THEN current_player' = players'[player_index]
     ELSE UNCHANGED current_player
  /\ result' = << >> /\ entry' = << >>
  /\ UNCHANGED << board_state, game_won, winner_combination, current_player_index,
                  player_ai_type, stack >>

\* set_ai_type(player_index, ai_type)
SetAiType(player_index, ai_type) ==
  /\ Idle
  /\ player_ai_type' = [player_ai_type EXCEPT ![players[player_index].symbol] = ai_type]
  /\ result' = << >> /\ entry' = << >>
  /\ UNCHANGED << board_state, game_won, winner_combination, current_player_index,
                  players, current_player, stack >>

\* the caller's turn: a valid move is applied, then the turn passes
Turn(r, c) ==
  /\ Idle
  /\ is_valid_move(r, c)
  /\ apply_move(r, c, current_player.symbol)
  /\ switch_player
  /\ result' = << >> /\ entry' = << >>
  /\ UNCHANGED << players, player_ai_type, stack >>

-----------------------------------------------------------------------------
(* Strategy calls.  A frame of `stack` is one running call:                *)
(*   fn     "_minimax_best_move", "minimax" or "greedy_move"                *)
(*   pc     position in the body of fn                                      *)
(*   r, c   loop position: the cell examined next, or the cell placed       *)
(*   value  best_value / max_eval / min_eval, or the value returned         *)
(*   move   best_move of _minimax_best_move                                 *)

Max(a, b) == IF a > b THEN a ELSE b
Min(a, b) == IF a < b THEN a ELSE b

\* first empty cell at or after (r, c) in the order of the nested for loops
RECURSIVE NextEmpty(_, _, _)
NextEmpty(b, r, c) ==
  IF r >= BOARD_SIZE[1] THEN None
  ELSE IF c >= BOARD_SIZE[2] THEN NextEmpty(b, r + 1, 0)
  ELSE IF b[r][c] = "" THEN << r, c >>
  ELSE NextEmpty(b, r, c + 1)

Frame(fn, pc, r, c, is_max, alpha, beta, value, move) ==
  [fn |-> fn, pc |-> pc, r |-> r, c |-> c, is_maximizing_player |-> is_max,
   alpha |-> alpha, beta |-> beta, value |-> value, move |-> move]

Top == stack[Len(stack)]
Caller == stack[Len(stack) - 1]
Below(n) == SubSeq(stack, 1, Len(stack) - n)

\* minimax entry with the scores of the two players exchanged
MinimaxEntry_Swapped(b, is_max, alpha, beta) ==
  LET w == has_winner(b)
      ret(v) == Frame("minimax", "ret", 0, 0, is_max, alpha, beta, v, None)
      start == IF is_max THEN NegInf ELSE PosInf
  IN  IF w = current_player.symbol THEN ret(-1)
      ELSE IF w = get_opponent(current_player).symbol THEN ret(1)
      ELSE IF is_tie(b, game_won) THEN ret(0)
      ELSE IF NextEmpty(b, 0, 0) = None THEN ret(start)
      ELSE Frame("minimax", "loop", 0, 0, is_max, alpha, beta, start, None)

\* minimax entry that scores a win of the opponent like a tie
MinimaxEntry_LossAsTie(b, is_max, alpha, beta) ==
  LET w == has_winner(b)
      ret(v) == Frame("minimax", "ret", 0, 0, is_max, alpha, beta, v, None)
      start == IF is_max THEN NegInf ELSE PosInf
  IN  IF w = current_player.symbol THEN ret(1)
      ELSE IF w = get_opponent(current_player).symbol THEN ret(0)
      ELSE IF is_tie(b, game_won) THEN ret(0)
      ELSE IF NextEmpty(b, 0, 0) = None THEN ret(start)
      ELSE Frame("minimax", "loop", 0, 0, is_max, alpha, beta, start, None)

\* entry of minimax(depth, is_maximizing_player, alpha, beta) on board b:
\* the terminal tests, then the start of the loop over the cells
MinimaxEntry(b, is_max, alpha, beta) ==
  LET w == has_winner(b)
      ret(v) == Frame("minimax", "ret", 0, 0, is_max, alpha, beta, v, None)
      start == IF is_max THEN NegInf ELSE PosInf
  IN  IF w = current_player.symbol THEN ret(1)
      ELSE IF w = get_opponent(current_player).symbol THEN ret(-1)
      ELSE IF is_tie(b, game_won) THEN ret(0)
      ELSE IF NextEmpty(b, 0, 0) = None THEN ret(start)
      ELSE Frame("minimax", "loop", 0, 0, is_max, alpha, beta, start, None)

\* random_move that draws from all the cells
BestMoveRandom_AnyCell ==
  /\ Idle
  /\ player_ai_type[current_player.symbol] = "random"
  /\ \E m \in Cells : result' = << m >>
  /\ entry' = << Snapshot >>
  /\ UNCHANGED << engine, stack >>

\* best_move(), ai_type == "random": random_move()
BestMoveRandom ==
  /\ Idle
  /\ player_ai_type[current_player.symbol] = "random"
  /\ LET available_moves == { m \in Cells : board_state[m[1]][m[2]] = "" }
     IN  IF available_moves = {}
         THEN result' = << None >>
         ELSE \E m \in available_moves : result' = << m >>
  /\ entry' = << Snapshot >>
  /\ UNCHANGED << engine, stack >>

\* best_move(), ai_type == "minimax": _minimax_best_move() up to its loop
BestMoveMinimax ==
  /\ Idle
  /\ player_ai_type[current_player.symbol] = "minimax"
  /\ IF NextEmpty(board_state, 0, 0) = None
     THEN /\ result' = << None >>
          /\ UNCHANGED stack
     ELSE /\ result' = << >>
          /\ stack' = << Frame("_minimax_best_move", "loop", 0, 0, TRUE,
                               NegInf, PosInf, NegInf, None) >>
  /\ entry' = << Snapshot >>
  /\ UNCHANGED engine

\* _minimax_best_move: place the mover's symbol in the next empty cell and
\* call minimax(0, False, alpha, beta)
RootCall ==
  /\ stack # << >>
  /\ Top.fn = "_minimax_best_move" /\ Top.pc = "loop"
  /\ LET cell == NextEmpty(board_state, Top.r, Top.c)
         b == [board_state EXCEPT ![cell[1]][cell[2]] = current_player.symbol]
     IN  /\ board_state' = b
         /\ stack' = Append(Below(1), [Top EXCEPT !.pc = "called", !.r = cell[1], !.c = cell[2]])
                     \o << MinimaxEntry(b, FALSE, Top.alpha, Top.beta) >>
  /\ UNCHANGED << game_won, winner_combination, current_player_index, players,
                  current_player, player_ai_type, result, entry >>

\* _minimax_best_move that also replaces best_move on an equal value
RootReturn_KeepLast ==
  /\ Len(stack) >= 2
  /\ Top.pc = "ret"
  /\ Caller.fn = "_minimax_best_move" /\ Caller.pc = "called"
  /\ LET f == Caller
         move_value == Top.value
         b == [board_state EXCEPT ![f.r][f.c] = ""]
         better == move_value >= f.value
         best_value == IF better THEN move_value ELSE f.value
         best_move == IF better THEN << f.r, f.c >> ELSE f.move
     IN  /\ board_state' = b
         /\ IF NextEmpty(b, f.r, f.c + 1) = None
            THEN /\ stack' = Below(2)
                 /\ result' = << best_move >>
            ELSE /\ stack' = Append(Below(2), [f EXCEPT !.pc = "loop", !.c = f.c + 1,
                                                        !.value = best_value, !.move = best_move])
                 /\ UNCHANGED result
  /\ UNCHANGED << game_won, winner_combination, current_player_index, players,
                  current_player, player_ai_type, entry >>

\* _minimax_best_move: minimax returned; revert the cell, keep a strictly
\* greater value, go on with the loop or return best_move
RootReturn ==
  /\ Len(stack) >= 2
  /\ Top.pc = "ret"
  /\ Caller.fn = "_minimax_best_move" /\ Caller.pc = "called"
  /\ LET f == Caller
         move_value == Top.value
         b == [board_state EXCEPT ![f.r][f.c] = ""]
         better == move_value > f.value
         best_value == IF better THEN move_value ELSE f.value
         best_move == IF better THEN << f.r, f.c >> ELSE f.move
     IN  /\ board_state' = b
         /\ IF NextEmpty(b, f.r, f.c + 1) = None
            THEN /\ stack' = Below(2)
                 /\ result' = << best_move >>
            ELSE /\ stack' = Append(Below(2), [f EXCEPT !.pc = "loop", !.c = f.c + 1,
                                                        !.value = best_value, !.move = best_move])
                 /\ UNCHANGED result
  /\ UNCHANGED << game_won, winner_combination, current_player_index, players,
                  current_player, player_ai_type, entry >>

\* minimax, maximizing layer: place the mover's symbol and recurse
MaxCall ==
  /\ stack # << >>
  /\ Top.fn = "minimax" /\ Top.pc = "loop" /\ Top.is_maximizing_player
  /\ LET cell == NextEmpty(board_state, Top.r, Top.c)
         b == [board_state EXCEPT ![cell[1]][cell[2]] = current_player.symbol]
     IN  /\ board_state' = b
         /\ stack' = Append(Below(1), [Top EXCEPT !.pc = "called", !.r = cell[1], !.c = cell[2]])
                     \o << MinimaxEntry(b, FALSE, Top.alpha, Top.beta) >>
  /\ UNCHANGED << game_won, winner_combination, current_player_index, players,
                  current_player, player_ai_type, result, entry >>

\* minimax, maximizing layer, with the comparison of the cut-off reversed
MaxReturn_ReversedCut ==
  /\ Len(stack) >= 2
  /\ Top.pc = "ret"
  /\ Caller.fn = "minimax" /\ Caller.pc = "called" /\ Caller.is_maximizing_player
  /\ LET f == Caller
         eval == Top.value
         b == [board_state EXCEPT ![f.r][f.c] = ""]
         max_eval == Max(f.value, eval)
         alpha == Max(f.alpha, eval)
         r == IF alpha <= f.beta THEN f.r + 1 ELSE f.r
         c == IF alpha <= f.beta THEN 0 ELSE f.c + 1
         g == [f EXCEPT !.value = max_eval, !.alpha = alpha, !.r = r, !.c = c]
     IN  /\ board_state' = b
         /\ stack' = Append(Below(2),
                            [g EXCEPT !.pc = IF NextEmpty(b, r, c) = None THEN "ret" ELSE "loop"])
  /\ UNCHANGED << game_won, winner_combination, current_player_index, players,
                  current_player, player_ai_type, result, entry >>

\* minimax, maximizing layer: the call returned; revert, update max_eval and
\* alpha, break out of the loop over the columns when beta <= alpha
MaxReturn ==
  /\ Len(stack) >= 2
  /\ Top.pc = "ret"
  /\ Caller.fn = "minimax" /\ Caller.pc = "called" /\ Caller.is_maximizing_player
  /\ LET f == Caller
         eval == Top.value
         b == [board_state EXCEPT ![f.r][f.c] = ""]
         max_eval == Max(f.value, eval)
         alpha == Max(f.alpha, eval)
         r == IF f.beta <= alpha THEN f.r + 1 ELSE f.r
         c == IF f.beta <= alpha THEN 0 ELSE f.c + 1
         g == [f EXCEPT !.value = max_eval, !.alpha = alpha, !.r = r, !.c = c]
     IN  /\ board_state' = b
         /\ stack' = Append(Below(2),
                            [g EXCEPT !.pc = IF NextEmpty(b, r, c) = None THEN "ret" ELSE "loop"])
  /\ UNCHANGED << game_won, winner_combination, current_player_index, players,
                  current_player, player_ai_type, result, entry >>

\* minimax, minimizing layer: place the opponent's symbol and recurse
MinCall ==
  /\ stack # << >>
  /\ Top.fn = "minimax" /\ Top.pc = "loop" /\ ~Top.is_maximizing_player
  /\ LET cell == NextEmpty(board_state, Top.r, Top.c)
         opponent == get_opponent(current_player)
         b == [board_state EXCEPT ![cell[1]][cell[2]] = opponent.symbol]
     IN  /\ board_state' = b
         /\ stack' = Append(Below(1), [Top EXCEPT !.pc = "called", !.r = cell[1], !.c = cell[2]])
                     \o << MinimaxEntry(b, TRUE, Top.alpha, Top.beta) >>
  /\ UNCHANGED << game_won, winner_combination, current_player_index, players,
                  current_player, player_ai_type, result, entry >>

\* minimax, minimizing layer, that breaks before it reverts the cell
MinReturn_BreakBeforeRevert ==
  /\ Len(stack) >= 2
  /\ Top.pc = "ret"
  /\ Caller.fn = "minimax" /\ Caller.pc = "called" /\ ~Caller.is_maximizing_player
  /\ LET f == Caller
         eval == Top.value
         min_eval == Min(f.value, eval)
         beta == Min(f.beta, eval)
         b == IF beta <= f.alpha THEN board_state
              ELSE [board_state EXCEPT ![f.r][f.c] = ""]
         r == IF beta <= f.alpha THEN f.r + 1 ELSE f.r
         c == IF beta <= f.alpha THEN 0 ELSE f.c + 1
         g == [f EXCEPT !.value = min_eval, !.beta = beta, !.r = r, !.c = c]
     IN  /\ board_state' = b
         /\ stack' = Append(Below(2),
                            [g EXCEPT !.pc = IF NextEmpty(b, r, c) = None THEN "ret" ELSE "loop"])
  /\ UNCHANGED << game_won, winner_combination, current_player_index, players,
                  current_player, player_ai_type, result, entry >>

\* minimax, minimizing layer: the call returned; revert, update min_eval and
\* beta, break out of the loop over the columns when beta <= alpha
MinReturn ==
  /\ Len(stack) >= 2
  /\ Top.pc = "ret"
  /\ Caller.fn = "minimax" /\ Caller.pc = "called" /\ ~Caller.is_maximizing_player
  /\ LET f == Caller
         eval == Top.value
         b == [board_state EXCEPT ![f.r][f.c] = ""]
         min_eval == Min(f.value, eval)
         beta == Min(f.beta, eval)
         r == IF beta <= f.alpha THEN f.r + 1 ELSE f.r
         c == IF beta <= f.alpha THEN 0 ELSE f.c + 1
         g == [f EXCEPT !.value = min_eval, !.beta = beta, !.r = r, !.c = c]
     IN  /\ board_state' = b
         /\ stack' = Append(Below(2),
                            [g EXCEPT !.pc = IF NextEmpty(b, r, c) = None THEN "ret" ELSE "loop"])
  /\ UNCHANGED << game_won, winner_combination, current_player_index, players,
                  current_player, player_ai_type, result, entry >>

\* best_move() that reads the greedy strategy under the opponent's symbol
BestMoveGreedy_OpponentType ==
  /\ Idle
  /\ player_ai_type[get_opponent(current_player).symbol] = "greedy"
  /\ IF NextEmpty(board_state, 0, 0) = None
     THEN /\ result' = << None >>
          /\ UNCHANGED stack
     ELSE /\ result' = << >>
          /\ stack' = << Frame("greedy_move", "win_loop", 0, 0, TRUE,
                               NegInf, PosInf, NegInf, None) >>
  /\ entry' = << Snapshot >>
  /\ UNCHANGED engine

\* best_move(), ai_type == "greedy": greedy_move() up to its first loop
BestMoveGreedy ==
  /\ Idle
  /\ player_ai_type[current_player.symbol] = "greedy"
  /\ IF NextEmpty(board_state, 0, 0) = None
     THEN /\ result' = << None >>
          /\ UNCHANGED stack
     ELSE /\ result' = << >>
          /\ stack' = << Frame("greedy_move", "win_loop", 0, 0, TRUE,
                               NegInf, PosInf, NegInf, None) >>
  /\ entry' = << Snapshot >>
  /\ UNCHANGED engine

\* greedy_move, first loop: place the mover's symbol in the next empty cell
GreedyWinPlace ==
  /\ stack # << >>
  /\ Top.fn = "greedy_move" /\ Top.pc = "win_loop"
  /\ LET cell == NextEmpty(board_state, Top.r, Top.c)
     IN  /\ board_state' = [board_state EXCEPT ![cell[1]][cell[2]] = current_player.symbol]
         /\ stack' = << [Top EXCEPT !.pc = "win_placed", !.r = cell[1], !.c = cell[2]] >>
  /\ UNCHANGED << game_won, winner_combination, current_player_index, players,
                  current_player, player_ai_type, result, entry >>

\* greedy_move whose first loop tests for a win of the opponent
GreedyWinCheck_OpponentSymbol ==
  /\ stack # << >>
  /\ Top.fn = "greedy_move" /\ Top.pc = "win_placed"
  /\ LET f == Top
         b == [board_state EXCEPT ![f.r][f.c] = ""]
     IN  /\ board_state' = b
         /\ IF has_winner(board_state) = get_opponent(current_player).symbol
            THEN /\ stack' = << >>
                 /\ result' = << << f.r, f.c >> >>
            ELSE /\ UNCHANGED result
                 /\ IF NextEmpty(b, f.r, f.c + 1) = None
                    THEN stack' = << [f EXCEPT !.pc = "block_loop", !.r = 0, !.c = 0] >>
                    ELSE stack' = << [f EXCEPT !.pc = "win_loop", !.c = f.c + 1] >>
  /\ UNCHANGED << game_won, winner_combination, current_player_index, players,
                  current_player, player_ai_type, entry >>

\* greedy_move, first loop: test has_winner, revert, return the cell on a win
GreedyWinCheck ==
  /\ stack # << >>
  /\ Top.fn = "greedy_move" /\ Top.pc = "win_placed"
  /\ LET f == Top
         b == [board_state EXCEPT ![f.r][f.c] = ""]
     IN  /\ board_state' = b
         /\ IF has_winner(board_state) = current_player.symbol
            THEN /\ stack' = << >>
                 /\ result' = << << f.r, f.c >> >>
            ELSE /\ UNCHANGED result
                 /\ IF NextEmpty(b, f.r, f.c + 1) = None
                    THEN stack' = << [f EXCEPT !.pc = "block_loop", !.r = 0, !.c = 0] >>
                    ELSE stack' = << [f EXCEPT !.pc = "win_loop", !.c = f.c + 1] >>
  /\ UNCHANGED << game_won, winner_combination, current_player_index, players,
                  current_player, player_ai_type, entry >>

\* greedy_move, second loop: place the opponent's symbol in the next empty cell
GreedyBlockPlace ==
  /\ stack # << >>
  /\ Top.fn = "greedy_move" /\ Top.pc = "block_loop"
  /\ LET cell == NextEmpty(board_state, Top.r, Top.c)
         opponent == get_opponent(current_player)
     IN  /\ board_state' = [board_state EXCEPT ![cell[1]][cell[2]] = opponent.symbol]
         /\ stack' = << [Top EXCEPT !.pc = "block_placed", !.r = cell[1], !.c = cell[2]] >>
  /\ UNCHANGED << game_won, winner_combination, current_player_index, players,
                  current_player, player_ai_type, result, entry >>

\* greedy_move whose second loop tests for a win of the mover again
GreedyBlockCheck_OwnSymbol ==
  /\ stack # << >>
  /\ Top.fn = "greedy_move" /\ Top.pc = "block_placed"
  /\ LET f == Top
         b == [board_state EXCEPT ![f.r][f.c] = ""]
     IN  /\ board_state' = b
         /\ IF has_winner(board_state) = current_player.symbol
            THEN /\ stack' = << >>
                 /\ result' = << << f.r, f.c >> >>
            ELSE IF NextEmpty(b, f.r, f.c + 1) = None
            THEN /\ stack' = << >>
                 /\ result' = << NextEmpty(b, 0, 0) >>
            ELSE /\ stack' = << [f EXCEPT !.pc = "block_loop", !.c = f.c + 1] >>
                 /\ UNCHANGED result
  /\ UNCHANGED << game_won, winner_combination, current_player_index, players,
                  current_player, player_ai_type, entry >>

\* greedy_move, second loop: test has_winner, revert, return the cell when the
\* opponent would win; after the loop return the first available move
GreedyBlockCheck ==
  /\ stack # << >>
  /\ Top.fn = "greedy_move" /\ Top.pc = "block_placed"
  /\ LET f == Top
         opponent == get_opponent(current_player)
         b == [board_state EXCEPT ![f.r][f.c] = ""]
     IN  /\ board_state' = b
         /\ IF has_winner(board_state) = opponent.symbol
            THEN /\ stack' = << >>
                 /\ result' = << << f.r, f.c >> >>
            ELSE IF NextEmpty(b, f.r, f.c + 1) = None
            THEN /\ stack' = << >>
                 /\ result' = << NextEmpty(b, 0, 0) >>
            ELSE /\ stack' = << [f EXCEPT !.pc = "block_loop", !.c = f.c + 1] >>
                 /\ UNCHANGED result
  /\ UNCHANGED << game_won, winner_combination, current_player_index, players,
                  current_player, player_ai_type, entry >>

\* apply_move on a valid move, to be followed by a revert of the cell
RoundTripApply(r, c) ==
  /\ Idle
  /\ is_valid_move(r, c)
  /\ apply_move(r, c, current_player.symbol)
  /\ stack' = << Frame("apply_move", "applied", r, c, TRUE, NegInf, PosInf, NegInf, None) >>
  /\ result' = << >>
  /\ entry' = << Snapshot >>
  /\ UNCHANGED << current_player_index, players, current_player, player_ai_type >>

\* board_state[r][c] = Move(r, c, ""): the revert of the moved cell
RoundTripRevert ==
  /\ stack # << >>
  /\ Top.fn = "apply_move"
  /\ board_state' = [board_state EXCEPT ![Top.r][Top.c] = ""]
  /\ stack' = << >>
  /\ result' = << << Top.r, Top.c >> >>
  /\ UNCHANGED << game_won, winner_combination, current_player_index, players,
                  current_player, player_ai_type, entry >>

\* the caller applies the move a strategy returned like any other move
TurnBest ==
  /\ Idle
  /\ result # << >> /\ result[1] # None
  /\ Turn(result[1][1], result[1][2])

-----------------------------------------------------------------------------
(* Specifications *)

Next ==
  \/ \E r \in RowRange, c \in ColRange : Play(r, c)
  \/ SwitchPlayer
  \/ ResetGame
  \/ \E i \in PlayerIndexes : ToggleAi(i)

Spec == Init /\ [][Next]_vars

\* the same strategy selected for every player before the game starts
InitAI == \E k \in 1..Len(ai_types) : InitWith(ai_types[k])

\* number of empty cells up to which the game loop asks minimax for a move
MaxSearchCells == 6

EmptyCount == Cardinality({ m \in Cells : board_state[m[1]][m[2]] = "" })

\* the game loop with strategy calls: turns alternate, and the player to move
\* may ask its strategy for a move
NextAI ==
  \/ \E r \in RowRange, c \in ColRange : Turn(r, c)
  \/ BestMoveRandom
  \/ BestMoveGreedy
  \/ GreedyWinPlace \/ GreedyWinCheck \/ GreedyBlockPlace \/ GreedyBlockCheck
  \/ (EmptyCount <= MaxSearchCells /\ BestMoveMinimax)
  \/ RootCall \/ RootReturn \/ MaxCall \/ MaxReturn \/ MinCall \/ MinReturn

SpecAI == InitAI /\ [][NextAI]_vars

\* X plays any valid move, O plays the move minimax returns
NextOptimal ==
  \/ \E r \in RowRange, c \in ColRange : current_player.symbol = "X" /\ Turn(r, c)
  \/ (current_player.symbol = "O" /\ result = << >> /\ BestMoveMinimax)
  \/ RootCall \/ RootReturn \/ MaxCall \/ MaxReturn \/ MinCall \/ MinReturn
  \/ (current_player.symbol = "O" /\ TurnBest)

SpecOptimal == Init /\ [][NextOptimal]_vars

\* the game loop of two greedy players
NextGreedy ==
  \/ \E r \in RowRange, c \in ColRange : Turn(r, c)
  \/ BestMoveGreedy
  \/ GreedyWinPlace \/ GreedyWinCheck \/ GreedyBlockPlace \/ GreedyBlockCheck

SpecGreedy == InitWith("greedy") /\ [][NextGreedy]_vars

BoardOf(rows) == [r \in RowRange |-> [c \in ColRange |-> rows[r + 1][c + 1]]]

\* X X _ / O O _ / _ _ _
BoardWinOrBlock == BoardOf(<< << "X", "X", "" >>, << "O", "O", "" >>, << "", "", "" >> >>)

\* X in the center of an empty board
BoardCenter == BoardOf(<< << "", "", "" >>, << "", "X", "" >>, << "", "", "" >> >>)

\* the two positions with O to move: the engine after construction, the
\* apply_move calls that write these cells, and switch_player
InitScenario ==
  /\ board_state \in { BoardWinOrBlock, BoardCenter }
  /\ game_won = FALSE
  /\ winner_combination = << >>
  /\ current_player_index = 1
  /\ players = DEFAULT_PLAYERS
  /\ current_player = DEFAULT_PLAYERS[1]
  /\ player_ai_type = [s \in {DEFAULT_PLAYERS[i].symbol : i \in PlayerIndexes} |-> "minimax"]
  /\ stack = << >>
  /\ result = << >>
  /\ entry = << >>

\* strategies are selected and asked for a move on these positions
NextScenario ==
  \/ \E i \in PlayerIndexes, k \in 1..Len(ai_types) : SetAiType(i, ai_types[k])
  \/ BestMoveRandom
  \/ BestMoveGreedy
  \/ GreedyWinPlace \/ GreedyWinCheck \/ GreedyBlockPlace \/ GreedyBlockCheck
  \/ BestMoveMinimax
  \/ RootCall \/ RootReturn \/ MaxCall \/ MaxReturn \/ MinCall \/ MinReturn

SpecScenario == InitScenario /\ [][NextScenario]_vars

\* the game loop, with any valid move applied and reverted at any time
NextRoundTrip ==
  \/ \E r \in RowRange, c \in ColRange : Turn(r, c)
  \/ \E r \in RowRange, c \in ColRange : RoundTripApply(r, c)
  \/ RoundTripRevert

SpecRoundTrip == Init /\ [][NextRoundTrip]_vars

\* board sizes and player lists handed to the constructor
BoardSizes == { << 0, 0 >>, << 0, 3 >>, << 3, 0 >>, << 3, 3 >> }

DuplicatePlayers == [i \in 0..1 |-> [symbol |-> "X", is_ai |-> FALSE]]

PlayerLists == { DEFAULT_PLAYERS, DuplicatePlayers }

\* _calculate_winning_combinations: rows[i][i] and rows[i][rows - i - 1] are
\* out of range (IndexError) when there are rows and fewer columns than rows
ConstructRaises(board_size) == board_size[1] > 0 /\ board_size[2] < board_size[1]

\* __init__(board_size, players) when it returns
Construct(board_size, ps) ==
  /\ ~ConstructRaises(board_size)
  /\ board_state = [r \in 0..(board_size[1] - 1) |-> [c \in 0..(board_size[2] - 1) |-> ""]]
  /\ game_won = FALSE
  /\ winner_combination = << >>
  /\ current_player_index = 0
  /\ players = ps
  /\ current_player = ps[0]
  /\ player_ai_type = [s \in {ps[i].symbol : i \in DOMAIN ps} |-> "minimax"]
  /\ stack = << >>
  /\ result = << >>
  /\ entry = << >>

InitConstruct == \E board_size \in BoardSizes, ps \in PlayerLists : Construct(board_size, ps)

\* the operations that do not touch the board, on any constructed engine
NextConstruct ==
  \/ SwitchPlayer
  \/ \E i \in PlayerIndexes : ToggleAi(i)
  \/ \E i \in PlayerIndexes, k \in 1..Len(ai_types) : SetAiType(i, ai_types[k])

SpecConstruct == InitConstruct /\ [][NextConstruct]_vars

\* the game loop of two players whose strategy is minimax: any valid move is
\* played, and the player to move may ask minimax for a move on any board
NextMinimax ==
  \/ \E r \in RowRange, c \in ColRange : Turn(r, c)
  \/ BestMoveMinimax
  \/ RootCall \/ RootReturn \/ MaxCall \/ MaxReturn \/ MinCall \/ MinReturn

SpecMinimax == Init /\ [][NextMinimax]_vars

\* number of empty cells up to which the loop below asks minimax for a move
MaxPlaySearchCells == 3

\* normal play: turns alternate on valid moves; between turns players are
\* toggled, strategies are asked for a move, and the game is reset
NextNormalPlay ==
  \/ \E r \in RowRange, c \in ColRange : Turn(r, c)
  \/ \E i \in PlayerIndexes : ToggleAi(i)
  \/ ResetGame
  \/ BestMoveRandom
  \/ BestMoveGreedy
  \/ GreedyWinPlace \/ GreedyWinCheck \/ GreedyBlockPlace \/ GreedyBlockCheck
  \/ (EmptyCount <= MaxPlaySearchCells /\ BestMoveMinimax)
  \/ RootCall \/ RootReturn \/ MaxCall \/ MaxReturn \/ MinCall \/ MinReturn

SpecNormalPlay == InitAI /\ [][NextNormalPlay]_vars

\* one game: the play loop applies a valid move and passes the turn for as
\* long as some move is valid
NextGame == \E r \in RowRange, c \in ColRange : Turn(r, c)

SpecGame == Init /\ [][NextGame]_vars /\ WF_vars(NextGame)

-----------------------------------------------------------------------------
(* Vocabulary of the properties: the lines of the board, stated from the   *)
(* rules of the game and not from winning_combinations                     *)

NumLines == BOARD_SIZE[1] + BOARD_SIZE[2] + 2

\* line k in the order: all rows, all columns, main diagonal, anti-diagonal
Line(k) ==
  IF k < BOARD_SIZE[1] THEN { m \in Cells : m[1] = k }
  ELSE IF k < BOARD_SIZE[1] + BOARD_SIZE[2] THEN { m \in Cells : m[2] = k - BOARD_SIZE[1] }
  ELSE IF k = BOARD_SIZE[1] + BOARD_SIZE[2] THEN { m \in Cells : m[1] = m[2] }
  ELSE { m \in Cells : m[1] + m[2] = BOARD_SIZE[1] - 1 }

PlayerSymbols == { "X", "O" }

\* line k is uniformly occupied by one non-empty symbol
Complete(b, k) == \E s \in PlayerSymbols : \A m \in Line(k) : b[m[1]][m[2]] = s

CompleteLines(b) == { k \in 0..(NumLines - 1) : Complete(b, k) }

LeastOf(S) == CHOOSE k \in S : \A j \in S : k <= j

CellsOf(combination) == { combination[i] : i \in 1..Len(combination) }

EmptyCells(b) == { m \in Cells : b[m[1]][m[2]] = "" }

-----------------------------------------------------------------------------
(* Properties *)

\* C1: when X plays any valid moves and O always plays the cell minimax
\* returns, no game state has a completed line of X: a finished game is won
\* by O or tied, and while the game is open minimax returns a valid move.
C1_MinimaxNeverLoses ==
  Idle =>
    /\ \A k \in CompleteLines(board_state) : \A m \in Line(k) : board_state[m[1]][m[2]] = "O"
    /\ game_won => has_winner(board_state) = "O"
    /\ (result # << >> /\ ~game_won /\ ~AllOccupied(board_state)) =>
         (result[1] # None /\ is_valid_move(result[1][1], result[1][2]))

\* a game against minimax that ended in a tie
C1_Witness == Idle /\ AllOccupied(board_state) /\ ~game_won /\ CompleteLines(board_state) = {}

\* C2: is_valid_move(move) is true iff game_won is false and the cell is
\* empty; once a win is recorded no cell is a valid move and no move can be
\* played, also on a full, won board.
C2_ValidMove ==
  \A r \in RowRange, c \in ColRange :
    /\ is_valid_move(r, c) <=> (game_won = FALSE /\ board_state[r][c] = "")
    /\ game_won => (~is_valid_move(r, c) /\ ~ENABLED Play(r, c))

\* a full board with a recorded win
C2_Witness == game_won /\ AllOccupied(board_state)

\* C3: after apply_move, game_won is set iff some line is uniformly occupied
\* by one non-empty symbol, and the recorded winner_combination is the first
\* complete line in the order rows, columns, main diagonal, anti-diagonal.
C3_ApplyMoveWin ==
  LET done == CompleteLines(board_state)
  IN  /\ game_won <=> done # {}
      /\ done = {} => winner_combination = << >>
      /\ done # {} => /\ Len(winner_combination) = BOARD_SIZE[1]
                      /\ CellsOf(winner_combination) = Line(LeastOf(done))

\* a move that completed two lines at once
C3_Witness == game_won /\ Cardinality(CompleteLines(board_state)) >= 2

Returned == Idle /\ result # << >>

Mover == current_player.symbol
Other == CHOOSE s \in PlayerSymbols : s # Mover
Strategy == player_ai_type[Mover]

Placed(b, m, s) == [b EXCEPT ![m[1]][m[2]] = s]

\* the first cell of S in row-major order
FirstCell(S) == CHOOSE m \in S : \A n \in S : m[1] < n[1] \/ (m[1] = n[1] /\ m[2] <= n[2])

\* C5 (as stated): in no state the engine can hold, boards written by the
\* strategies during their search included, is is_tie() true while
\* has_winner() returns a symbol.
C5_TieExcludesWinner ==
  ~(is_tie(board_state, game_won) /\ has_winner(board_state) # False)

\* C6 (as stated): on X X _ / O O _ / _ _ _ with O to move, best_move()
\* returns (1,2) under minimax and under greedy.
C6_WinOverBlock ==
  (Returned /\ board_state = BoardWinOrBlock /\ Mover = "O"
     /\ Strategy \in { "minimax", "greedy" }) => result[1] = << 1, 2 >>

\* C6 (amended): on that board with O to move, best_move() returns (1,2)
\* under greedy and (0,2) under minimax.
C6_WinOverBlockAmended ==
  (Returned /\ board_state = BoardWinOrBlock /\ Mover = "O") =>
    /\ Strategy = "greedy" => result[1] = << 1, 2 >>
    /\ Strategy = "minimax" => result[1] = << 0, 2 >>

\* minimax has returned on that board
C6_Witness ==
  Returned /\ board_state = BoardWinOrBlock /\ Mover = "O" /\ Strategy = "minimax"

\* C7: on a board without a complete line greedy_move returns the first empty
\* cell that completes a line for the mover, else the first empty cell that
\* would complete a line for the opponent, else the first empty cell.
C7_GreedyOrder ==
  LET b == board_state
      empty == EmptyCells(b)
      wins == { m \in empty : CompleteLines(Placed(b, m, Mover)) # {} }
      blocks == { m \in empty : CompleteLines(Placed(b, m, Other)) # {} }
  IN  (Returned /\ Strategy = "greedy" /\ CompleteLines(b) = {} /\ empty # {}) =>
        result[1] = IF wins # {} THEN FirstCell(wins)
                    ELSE IF blocks # {} THEN FirstCell(blocks)
                    ELSE FirstCell(empty)

\* greedy_move has returned where the mover cannot win at once but the
\* opponent could
C7_Witness ==
  LET b == board_state
      empty == EmptyCells(b)
  IN  /\ Returned /\ Strategy = "greedy" /\ CompleteLines(b) = {}
      /\ \A m \in empty : CompleteLines(Placed(b, m, Mover)) = {}
      /\ \E m \in empty : CompleteLines(Placed(b, m, Other)) # {}

\* random_move may return m
RandomReturns(m) == BestMoveRandom /\ result' = << m >>

\* C8: under each strategy best_move() returns no move iff the board has no
\* empty cell, and otherwise an empty cell; under the random strategy every
\* empty cell is a possible result.
C8_BestMoveEmptyCell ==
  /\ Returned =>
       /\ result[1] = None <=> EmptyCells(board_state) = {}
       /\ result[1] # None => result[1] \in EmptyCells(board_state)
  /\ (Idle /\ Strategy = "random") =>
       \A m \in EmptyCells(board_state) : ENABLED RandomReturns(m)

\* best_move() has returned no move on a full board
C8_Witness == Returned /\ result[1] = None /\ EmptyCells(board_state) = {}

\* C9 (as stated): apply_move on a valid move followed by the revert of the
\* cell leaves cell symbols, game_won and winner_combination as they were.
C9_RoundTrip ==
  (Idle /\ entry # << >>) =>
    /\ board_state = entry[1].board_state
    /\ game_won = entry[1].game_won
    /\ winner_combination = entry[1].winner_combination

\* C9 (amended): the round trip restores the cell symbols; game_won and
\* winner_combination are as before only when the move completed no line,
\* otherwise game_won stays true and winner_combination stays that line.
C9_RoundTripAmended ==
  (Idle /\ entry # << >>) =>
    LET done == CompleteLines(Placed(entry[1].board_state, result[1], Mover))
    IN  /\ board_state = entry[1].board_state
        /\ done = {} => /\ game_won = entry[1].game_won
                        /\ winner_combination = entry[1].winner_combination
        /\ done # {} => /\ game_won
                        /\ CellsOf(winner_combination) = Line(LeastOf(done))

\* a move that completed a line was applied and reverted
C9_Witness ==
  /\ Idle /\ entry # << >>
  /\ CompleteLines(Placed(entry[1].board_state, result[1], Mover)) # {}

\* C10: after X took the center of the empty board, minimax for O returns
\* the corner (0,0), the first cell of maximal value, and no edge cell.
C10_CenterCorner ==
  (Returned /\ board_state = BoardCenter /\ Mover = "O" /\ Strategy = "minimax") =>
    /\ result[1] = << 0, 0 >>
    /\ result[1] \in { m \in Cells : m[1] \in { 0, BOARD_SIZE[1] - 1 }
                                     /\ m[2] \in { 0, BOARD_SIZE[2] - 1 } }

\* minimax has returned on that board
C10_Witness ==
  Returned /\ board_state = BoardCenter /\ Mover = "O" /\ Strategy = "minimax"

\* reset_game() has returned and nothing was done since
AfterReset == Idle /\ result = << >> /\ entry # << >>

\* C11: reset_game() can be called in every state, and the state it yields has
\* every cell empty, game_won false, winner_combination empty,
\* current_player_index 0 and current_player = players[0]; every cell is then
\* a valid move.
C11_ResetGame ==
  /\ Idle => ENABLED ResetGame
  /\ AfterReset =>
       /\ \A m \in Cells : board_state[m[1]][m[2]] = ""
       /\ game_won = FALSE
       /\ winner_combination = << >>
       /\ current_player_index = 0
       /\ current_player = players[0]
       /\ \A r \in RowRange, c \in ColRange : is_valid_move(r, c)

\* a won game with O to move and a toggled first player was reset
C11_Witness ==
  /\ AfterReset
  /\ entry[1].game_won /\ entry[1].current_player_index = 1
  /\ players[0].is_ai

\* C12: in every state reached by switch_player, toggle_ai, apply_move and
\* reset_game in any order, current_player is players[current_player_index]
\* with its present is_ai flag; switch_player moves the index to
\* (index + 1) mod the number of players, and toggle_ai(i) flips the is_ai
\* flag of player i and changes no other player and no symbol.
C12_CurrentPlayer ==
  /\ [](current_player = players[current_player_index])
  /\ [][ /\ SwitchPlayer =>
              current_player_index' = (current_player_index + 1) % Cardinality(DOMAIN players)
         /\ \A i \in PlayerIndexes : ToggleAi(i) =>
              /\ players'[i].is_ai = ~players[i].is_ai
              /\ players'[i].symbol = players[i].symbol
              /\ \A j \in PlayerIndexes \ {i} : players'[j] = players[j]
       ]_vars

\* the second player is to move in a game under way and was toggled while
\* current
C12_Witness ==
  /\ current_player_index = 1 /\ board_state # EmptyBoard
  /\ players[1].is_ai /\ current_player.is_ai /\ ~players[0].is_ai

\* the function best_move() dispatches to for the strategy name t
StrategyFunction(t) ==
  IF t = "minimax" THEN "_minimax_best_move"
  ELSE IF t = "greedy" THEN "greedy_move"
  ELSE "random_move"

\* C13: best_move() runs the strategy last set for the player current at the
\* call (the running call is that strategy's function, and on the two
\* positions its result is that strategy's move, whatever is set for the
\* other player); set_ai_type(i, s) sets the strategy of player i and
\* changes no other player's strategy, no cell, neither game_won nor the
\* turn index.
C13_StrategyInEffect ==
  /\ [](stack # << >> => stack[1].fn = StrategyFunction(Strategy))
  /\ []((Returned /\ board_state = BoardWinOrBlock) =>
          /\ Strategy = "greedy" => result[1] = << 1, 2 >>
          /\ Strategy = "minimax" => result[1] = << 0, 2 >>
          /\ Strategy = "random" => result[1] \in EmptyCells(board_state))
  /\ []((Returned /\ board_state = BoardCenter) =>
          /\ Strategy \in { "greedy", "minimax" } => result[1] = << 0, 0 >>
          /\ Strategy = "random" => result[1] \in EmptyCells(board_state))
  /\ [][\A i \in PlayerIndexes, k \in 1..Len(ai_types) :
          SetAiType(i, ai_types[k]) =>
            /\ player_ai_type'[players[i].symbol] = ai_types[k]
            /\ \A j \in PlayerIndexes \ {i} :
                 player_ai_type'[players[j].symbol] = player_ai_type[players[j].symbol]
            /\ Snapshot' = Snapshot
            /\ players' = players /\ current_player' = current_player
       ]_vars

\* greedy was set for O during the game and has returned its move, while
\* another strategy is set for X
C13_Witness ==
  /\ Returned /\ board_state = BoardWinOrBlock
  /\ Mover = "O" /\ Strategy = "greedy" /\ player_ai_type["X"] = "random"

\* C14 (as stated): no constructed engine has a zero-size board or two
\* players with the same symbol (the constructor rejects such configurations).
C14_MalformedRejected ==
  /\ DOMAIN board_state # {}
  /\ \A r \in DOMAIN board_state : DOMAIN board_state[r] # {}
  /\ \A i, j \in DOMAIN players : i # j => players[i].symbol # players[j].symbol

\* a frame whose call has placed a symbol in its cell (r, c) and not yet
\* reverted it
Holding(f) == f.pc \in { "called", "win_placed", "block_placed" }

\* the symbol the call of frame f places
PlacedSymbol(f) ==
  IF f.fn = "greedy_move" THEN (IF f.pc = "win_placed" THEN Mover ELSE Other)
  ELSE IF f.fn = "_minimax_best_move" \/ f.is_maximizing_player THEN Mover
  ELSE Other

HoldingFrames == { k \in DOMAIN stack : Holding(stack[k]) }

\* the board at entry of the running best_move() with the cells the calls
\* under way hold: for the innermost call, the board at its own entry
BoardAtEntryOfTop ==
  [r \in RowRange |-> [c \in ColRange |->
     IF \E k \in HoldingFrames : stack[k].r = r /\ stack[k].c = c
     THEN PlacedSymbol(stack[CHOOSE k \in HoldingFrames : stack[k].r = r /\ stack[k].c = c])
     ELSE entry[1].board_state[r][c]]]

\* C15: when best_move() returns, under each strategy, cells, game_won,
\* winner_combination and current_player_index are what they were at its
\* entry; while it runs the flags and the index stay so, each call under way
\* holds one cell that was empty, and the board is the entry board plus
\* these cells, so that whenever a minimax call returns (terminal test, end
\* of its loops or cut-off) the board is the one that call was entered with.
C15_PureQuery ==
  /\ Returned => Snapshot = entry[1]
  /\ stack # << >> =>
       /\ game_won = entry[1].game_won
       /\ winner_combination = entry[1].winner_combination
       /\ current_player_index = entry[1].current_player_index
       /\ \A k \in HoldingFrames : entry[1].board_state[stack[k].r][stack[k].c] = ""
       /\ \A j, k \in HoldingFrames :
            j # k => << stack[j].r, stack[j].c >> # << stack[k].r, stack[k].c >>
       /\ \A k \in DOMAIN stack : k < Len(stack) => Holding(stack[k])
       /\ board_state = BoardAtEntryOfTop

\* a minimax call on a board with empty cells and no winner has returned
\* after a cut-off, below at least two calls
C15_Witness ==
  /\ Len(stack) >= 3
  /\ Top.fn = "minimax" /\ Top.pc = "ret" /\ Top.beta <= Top.alpha
  /\ EmptyCells(board_state) # {} /\ has_winner(board_state) = False

\* the lines of the board, as sets of cells
Lines == { Line(k) : k \in 0..(NumLines - 1) }

Wins(b, s) == \E L \in Lines : \A m \in L : b[m[1]][m[2]] = s

\* reference minimax without pruning, flat scoring: the value of board b for
\* `mover` when `to_move` moves next and both play their best
RECURSIVE Reference(_, _, _, _)
Reference(b, mover, other, to_move) ==
  IF Wins(b, mover) THEN 1
  ELSE IF Wins(b, other) THEN -1
  ELSE LET empty == EmptyCells(b)
       IN  IF empty = {} THEN 0
           ELSE LET next == IF to_move = mover THEN other ELSE mover
                    values == { Reference(Placed(b, m, to_move), mover, other, next) : m \in empty }
                IN  IF to_move = mover
                    THEN CHOOSE v \in values : \A w \in values : v >= w
                    ELSE CHOOSE v \in values : \A w \in values : v <= w

\* the first empty cell, in row-major order, of maximal reference value
ReferenceMove(b, mover, other) ==
  LET valued == { << m, Reference(Placed(b, m, mover), mover, other, other) >> :
                    m \in EmptyCells(b) }
  IN  FirstCell({ p[1] : p \in { q \in valued : \A o \in valued : q[2] >= o[2] } })

\* C16: on every board reached by valid play that has no winner and an empty
\* cell, _minimax_best_move returns the cell the reference minimax without
\* pruning selects: the first empty cell in row-major order whose exact value
\* is the maximum over the empty cells.
C16_MinimaxIsReference ==
  (Returned /\ Strategy = "minimax" /\ ~game_won /\ EmptyCells(board_state) # {}) =>
    result[1] = ReferenceMove(board_state, Mover, Other)

\* minimax has returned a cell that is not the first empty cell, on a board
\* with at least four empty cells
C16_Witness ==
  /\ Returned /\ Strategy = "minimax" /\ ~game_won
  /\ EmptyCount >= 4
  /\ result[1] # FirstCell(EmptyCells(board_state))

\* a minimax call that has evaluated a child and for which beta <= alpha holds
CutOff(f) ==
  f.fn = "minimax" /\ f.value \notin { NegInf, PosInf } /\ f.beta <= f.alpha

\* C17 (as stated): a minimax call in which beta <= alpha holds after a child
\* was evaluated places and evaluates no further cell: it is not in its loops
\* any more and has no child under evaluation.
C17_CutOffPrunes ==
  \A k \in DOMAIN stack : CutOff(stack[k]) => stack[k].pc = "ret"

\* cell m holds a symbol that a move of the game put there: it is not the
\* cell a strategy call under way has placed and will revert
Applied(m) ==
  /\ board_state[m[1]][m[2]] # ""
  /\ \A k \in DOMAIN stack :
       Holding(stack[k]) => << stack[k].r, stack[k].c >> # m

\* C18: under normal play with strategy calls, toggle_ai and resets,
\* winner_combination is empty exactly while game_won is false and otherwise
\* is one line whose cells all hold the same player's symbol; and in every
\* step other than a reset game_won does not go back to false and every cell
\* holding a symbol of the game keeps it, the steps of the strategies'
\* simulations included.
C18_NoOverwrite ==
  /\ [](winner_combination = << >> <=> ~game_won)
  /\ [](game_won =>
          /\ CellsOf(winner_combination) \in Lines
          /\ \E s \in PlayerSymbols :
               \A m \in CellsOf(winner_combination) : board_state[m[1]][m[2]] = s)
  /\ [][ResetGame \/
         /\ game_won => game_won'
         /\ \A m \in Cells :
              Applied(m) => (Applied(m)' /\ board_state'[m[1]][m[2]] = board_state[m[1]][m[2]])
       ]_vars

\* a strategy is simulating a move on the board of a won game whose first
\* player was toggled
C18_Witness ==
  /\ game_won /\ players[0].is_ai
  /\ \E k \in DOMAIN stack : Holding(stack[k])

\* the steps in which has_winner() is called on a board that holds a
\* simulated move
CallsHasWinner ==
  RootCall \/ MaxCall \/ MinCall \/ GreedyWinCheck \/ GreedyBlockCheck

\* C19: in every state, boards holding simulated moves included, has_winner()
\* is the symbol on the first complete line in the order rows, columns,
\* main diagonal, anti-diagonal, and false when no line is complete, whatever
\* game_won is; the steps that call it change game_won, winner_combination
\* and current_player_index not at all and the board only in the one cell
\* the caller places or reverts.
C19_HasWinner ==
  /\ [](LET done == CompleteLines(board_state)
        IN  has_winner(board_state) =
              IF done = {} THEN False
              ELSE LET m == FirstCell(Line(LeastOf(done)))
                   IN  board_state[m[1]][m[2]])
  /\ [][CallsHasWinner =>
          /\ game_won' = game_won
          /\ winner_combination' = winner_combination
          /\ current_player_index' = current_player_index
          /\ Cardinality({ m \in Cells :
                 board_state'[m[1]][m[2]] # board_state[m[1]][m[2]] }) = 1
       ]_vars

\* a simulated move completes a line while game_won is false, and a second
\* line is complete on the same board
C19_Witness ==
  /\ ~game_won /\ has_winner(board_state) # False
  /\ Cardinality(CompleteLines(board_state)) >= 2

\* the game is over: a win is recorded or is_tie() is true
Terminal == game_won \/ is_tie(board_state, game_won)

\* C20: in the play loop every step applies one move to one empty cell, so a
\* game has at most rows * cols moves; when no cell is empty the game is
\* terminal; every game reaches a terminal state; in a terminal state no
\* move is valid and no turn can be played, while reset_game can be called;
\* in every other state some move is valid.
C20_GameTerminates ==
  /\ [][EmptyCount' = EmptyCount - 1]_vars
  /\ [](BOARD_SIZE[1] * BOARD_SIZE[2] - EmptyCount \in 0..(BOARD_SIZE[1] * BOARD_SIZE[2]))
  /\ [](EmptyCount = 0 => Terminal)
  /\ [](Terminal =>
          /\ \A r \in RowRange, c \in ColRange : ~is_valid_move(r, c) /\ ~ENABLED Turn(r, c)
          /\ ENABLED ResetGame)
  /\ [](~Terminal => \E r \in RowRange, c \in ColRange : is_valid_move(r, c) /\ ENABLED Turn(r, c))
  /\ <>Terminal

\* a game that ended in a tie with its last possible move
C20_Witness ==
  /\ Terminal /\ ~game_won
  /\ EmptyCount = 0 /\ current_player_index = 1

====
